---------------------------- MODULE Spec2Model ----------------------------
(***************************************************************************)
(* A state-machine model of the solar-system visualisation.                *)
(*                                                                         *)
(* The repository holds three generations of the same application:         *)
(*   - the current one: SolarSystem (src/unnamed/part_003) with the        *)
(*     exponential-smoothing CameraController (src/unnamed/part_001);      *)
(*   - an intermediate one whose camera store holds a Vector3 target       *)
(*     (src/src/components/CameraController.tsx) read by OverlayInfo       *)
(*     (src/unnamed/part_000), with planets drawn by Planet.tsx;           *)
(*   - the first, single-file one (src/unnamed/part_002).                  *)
(*                                                                         *)
(* NUMBERS.  Lengths are kept in units of 1/20 world unit.  Elapsed time   *)
(* is sampled on a grid of ticks of pi/0.6 seconds, so that an angular     *)
(* speed of 0.1 rad/s turns by pi/6 per tick and every angle the program   *)
(* computes is a whole multiple of pi/6.  The cosine and sine of such an   *)
(* angle are exact numbers of the form (a + b*sqrt(3))/2; a pair <<a, b>>  *)
(* stands for a + b*sqrt(3) ("surd"), and orbit positions are computed     *)
(* exactly with such pairs.  The camera's smoothing state is kept in       *)
(* fixed point (integers, 1/20 world unit), each operation rounding to     *)
(* the nearest unit as floating point rounds to the nearest double.        *)
(* Blend factors are in thousandths.                                       *)
(***************************************************************************)
EXTENDS Integers, Sequences, FiniteSets, TLC

NULL == "null"

(***************************************************************************)
(* Bounds of the model.                                                    *)
(***************************************************************************)
\* Number of planets of the table that are modelled (see PlanetOrder).
NumPlanets == 2
\* Last time sample (in ticks) of the bounded specifications.
MaxClock == 2

(***************************************************************************)
(* Arithmetic.                                                             *)
(***************************************************************************)
Abs(n) == IF n < 0 THEN -n ELSE n

\* n/d rounded to the nearest integer, halves away from zero (d > 0).
RoundDiv(n, d) ==
    IF n >= 0 THEN (2 * n + d) \div (2 * d) ELSE -((2 * (-n) + d) \div (2 * d))

\* Surds: <<a, b>> is a + b*sqrt(3).
SurdZero == <<0, 0>>
SurdAdd(s, t) == <<s[1] + t[1], s[2] + t[2]>>
SurdScale(k, s) == <<k * s[1], k * s[2]>>
SurdMul(s, t) == <<s[1] * t[1] + 3 * s[2] * t[2], s[1] * t[2] + s[2] * t[1]>>

\* The sign (-1, 0, 1) of a + b*sqrt(3), decided exactly.
SurdSign(s) ==
    LET a == s[1]
        b == s[2]
    IN  IF a = 0 /\ b = 0 THEN 0
        ELSE IF a >= 0 /\ b >= 0 THEN 1
        ELSE IF a <= 0 /\ b <= 0 THEN -1
        ELSE IF a > 0 THEN (IF a * a > 3 * b * b THEN 1 ELSE -1)
        ELSE (IF 3 * b * b > a * a THEN 1 ELSE -1)

\* The surd s/den as a fixed-point number, rounded to the nearest unit
\* (sqrt(3) = 1.732...).
ToFixed(s, den) == RoundDiv(s[1] * 1000 + s[2] * 1732, 1000 * den)

\* Math.cos and Math.sin at k*pi/6, times two.
CosTable ==
    << <<2, 0>>, <<0, 1>>, <<1, 0>>, <<0, 0>>, <<-1, 0>>, <<0, -1>>,
       <<-2, 0>>, <<0, -1>>, <<-1, 0>>, <<0, 0>>, <<1, 0>>, <<0, 1>> >>
Cos2(k) == CosTable[(k % 12) + 1]
Sin2(k) == CosTable[((k + 9) % 12) + 1]

\* Math.exp(-x) in thousandths, x in thousandths, at the arguments the
\* frame deltas of DeltaSamples produce (delta*4 and delta*3).
ExpNeg(x) ==
    CASE x = 0 -> 1000
      [] x = 48 -> 953
      [] x = 64 -> 938
      [] x = 3000 -> 50
      [] x = 4000 -> 18

\* Frame deltas the renderer hands to useFrame, in milliseconds.
DeltaSamples == {16, 1000}

\* A lerp with a sign slip: v += (t + v) * alpha.
LerpCoordSignSlip(v, t, alpha) == v + RoundDiv((t + v) * alpha, 1000)

\* THREE.Vector3.lerp on one coordinate: v += (t - v) * alpha.
LerpCoord(v, t, alpha) == v + RoundDiv((t - v) * alpha, 1000)
Lerp(v, t, alpha) ==
    <<LerpCoord(v[1], t[1], alpha), LerpCoord(v[2], t[2], alpha),
      LerpCoord(v[3], t[3], alpha)>>


(***************************************************************************)
(* The planet table (SolarSystem, part_003).  Only the planets whose       *)
(* angular speed is a whole multiple of 0.1 rad/s are modelled: their      *)
(* angle at every tick is a whole multiple of pi/6.  NumPlanets cuts the   *)
(* list.                                                                   *)
(***************************************************************************)
PlanetOrder == <<"Earth", "Mars", "Mercury", "Venus", "Neptune">>
Names == {PlanetOrder[i] : i \in 1..NumPlanets}

\* planetInfo, the text of the information panel.
planetInfo(name) ==
    CASE name = "Mercury" -> "Smallest planet, closest to the Sun."
      [] name = "Venus" -> "Hottest planet with dense atmosphere."
      [] name = "Earth" -> "Our home world with oceans and life."
      [] name = "Mars" -> "The Red Planet, target for exploration."
      [] name = "Neptune" -> "Cold, windy, and farthest planet."

\* The distance of a planet before scaling, in world units.
BaseDistance(name) ==
    CASE name = "Mercury" -> 10
      [] name = "Venus" -> 14
      [] name = "Earth" -> 18
      [] name = "Mars" -> 23
      [] name = "Neptune" -> 58

\* orbitSpeed, in tenths of rad/s.
OrbitSpeed(name) ==
    CASE name = "Mercury" -> 10
      [] name = "Venus" -> 8
      [] name = "Earth" -> 6
      [] name = "Mars" -> 5
      [] name = "Neptune" -> 1

\* Window widths the browser may report.
Widths == {800, 1200}

\* scaleFactor, in tenths.
ScaleFactor(width) == IF width < 480 THEN 9 ELSE IF width < 1024 THEN 8 ELSE 10

\* The planets array a render of SolarSystem builds: distance in tenths of a
\* world unit, orbitSpeed in tenths of rad/s.
PlanetsTable(width) ==
    [p \in Names |->
        [distance |-> BaseDistance(p) * ScaleFactor(width),
         orbitSpeed |-> OrbitSpeed(p)]]

(***************************************************************************)
(* The orbit position updater: at elapsed time t (ticks) a body of the     *)
(* given distance (tenths) and speed (tenths of rad/s) is placed at        *)
(* (distance*cos(t*speed), 0, distance*sin(t*speed)).  The result is a     *)
(* vector of surds in units of 1/20.                                       *)
(***************************************************************************)
\* The angle wrapped into one turn (12 steps of pi/6) before it is used.
OrbitAngleWrapped(speed, t) == (t * speed) % 12

\* The angle of the updater, clock.elapsedTime * orbitSpeed (not wrapped), in
\* steps of pi/6.
OrbitAngle(speed, t) == t * speed

\* The updater with the cosine copied into z.
OrbitPositionCosTwice(distance, speed, t) ==
    LET angle == t * speed
    IN  <<SurdScale(distance, Cos2(angle)), SurdZero,
          SurdScale(distance, Cos2(angle))>>

\* The updater with the sine in x and the cosine in z.
OrbitPositionSwapped(distance, speed, t) ==
    LET angle == t * speed
    IN  <<SurdScale(distance, Sin2(angle)), SurdZero,
          SurdScale(distance, Cos2(angle))>>

OrbitPosition(distance, speed, t) ==
    LET angle == OrbitAngle(speed, t)
    IN  <<SurdScale(distance, Cos2(angle)), SurdZero,
          SurdScale(distance, Sin2(angle))>>

\* PlanetGroup's useFrame: the position it sets on the planet's group.
PlanetGroupFrame(planet, t) == OrbitPosition(planet.distance, planet.orbitSpeed, t)

\* A vector of surds (units of 1/20) as a fixed-point vector.
ToFixedVec(v) == <<ToFixed(v[1], 1), ToFixed(v[2], 1), ToFixed(v[3], 1)>>

\* A Vector3-or-null that is null, and a table row that was never used.
NoVec == <<>>
NoRow == [distance |-> 0, orbitSpeed |-> 0]

Origin == <<0, 0, 0>>
SurdOrigin == <<SurdZero, SurdZero, SurdZero>>
\* new THREE.Vector3(0, 40, 120)
DefaultPos == <<0, 40 * 20, 120 * 20>>

\* The camera position SolarSystem gives the Canvas for a window width.
CameraPos(width) ==
    IF width < 480 THEN <<0, 25 * 20, 80 * 20>>
    ELSE IF width < 1024 THEN <<0, 35 * 20, 110 * 20>>
    ELSE <<0, 40 * 20, 120 * 20>>

\* camera.getWorldDirection: the direction from the camera's position to the
\* point it looks at (kept as that difference; the program normalises it).
GetWorldDirection(cam) ==
    <<cam.lookAt[1] - cam.position[1], cam.lookAt[2] - cam.position[2],
      cam.lookAt[3] - cam.position[3]>>

\* An activation that captures the direction in every Focused frame.
ActivateEveryFrame(active, dir, cam) ==
    [isActive |-> TRUE, lastDir |-> GetWorldDirection(cam), captured |-> TRUE]

\* The start of the Focused branch: on the first Focused frame after a frame
\* that was not, the view direction is captured and the flag is set.
Activate(active, dir, cam) ==
    IF ~active
    THEN [isActive |-> TRUE, lastDir |-> GetWorldDirection(cam), captured |-> TRUE]
    ELSE [isActive |-> active, lastDir |-> dir, captured |-> FALSE]

\* The blend factor of the free branch (0.05) and of getPlanetPosition (0.2).
BlendFree == 50
BlendTarget == 200

VARIABLES
    \* ---- SolarSystem and the camera store (part_003, part_001)
    selected,        \* useState: the selected planet's name, or NULL
    isFocusing,      \* the store's flag
    showHint,        \* useState: the hint is still shown
    innerWidth,      \* window.innerWidth
    planets,         \* the planets array of the last render
    ui,              \* what the last render shows: panel, back button, hint
    planetRef,       \* planetRefs[p].current is set
    position,        \* the position of each planet's group
    clock,           \* the elapsed time of the last frame, in ticks
    smoothedTarget,  \* SolarSystem's smoothedTarget
    smoothedPlanet,  \* CameraController's refs
    smoothedCamera,
    isActive,
    lastDir,
    camera,          \* the scene's camera: its position and the point it looks at
    \* ---- history variables
    lastEvent,       \* the last click: a planet's name, "back", or "none"
    lastFrame,       \* what the last frame did
    firstUsed,       \* per planet, the table row its first update used
    lastUsed,        \* per planet, the table row its latest update used
    quietPlanets,    \* a second run with the same clock, widths and timer
    quietPosition,   \*   but no clicks: its planets array and positions
    \* ---- the intermediate application (OverlayInfo, Planet.tsx)
    targetPlanet,    \* the store's target: a position, or NULL
    info,            \* OverlayInfo's useState
    targetName,      \* history: the planet whose position was stored
    meshPosition,    \* the position of each Planet's group
    elapsed,         \* that application's clock, in ticks
    angle,           \* its CameraController's angle, in steps of rotationSpeed
    freeAngles,      \* history: the angle each Free frame used, in order
    \* ---- the orbit updaters applied to given inputs
    orbitArgs,       \* the radius (tenths), speed (tenths of rad/s) and time
    orbitAngle,      \* the angle the updater computed for them
    orbitResult      \* the position the updater computed for them

appVars ==
    <<selected, isFocusing, showHint, innerWidth, planets, ui, planetRef, position,
      clock, smoothedTarget, smoothedPlanet, smoothedCamera, isActive, camera,
                   lastDir, lastEvent,
      lastFrame, firstUsed, lastUsed, quietPlanets, quietPosition>>
overlayVars ==
    <<targetPlanet, info, targetName, meshPosition, elapsed, angle, freeAngles>>
updaterVars == <<orbitArgs, orbitAngle, orbitResult>>
vars == <<appVars, overlayVars, updaterVars>>

(***************************************************************************)
(* SolarSystem's render: what it returns for a selection and a hint flag.  *)
(***************************************************************************)
InfoPanel(name) == [name |-> name, text |-> planetInfo(name)]

NoPanel == [name |-> NULL, text |-> ""]

RenderUi(sel, hint) ==
    [panel |-> IF sel # NULL THEN InfoPanel(sel) ELSE NoPanel,
     back |-> sel # NULL,
     hint |-> sel = NULL /\ hint]

\* A render that reads the selection of the previous render.
RenderStale(sel, hint) ==
    /\ planets' = PlanetsTable(innerWidth)
    /\ ui' = RenderUi(selected, hint)

\* A render of SolarSystem with the new state: the planets array is rebuilt
\* from window.innerWidth, the panel and the buttons from the selection.
Render(sel, hint) ==
    /\ planets' = PlanetsTable(innerWidth)
    /\ ui' = RenderUi(sel, hint)

\* A handleClick that sets the selection and leaves the store's flag alone.
handleClickKeepsFlag(p) ==
    /\ planetRef[p]
    /\ selected' = p
    /\ isFocusing' = isFocusing
    /\ lastEvent' = p
    /\ Render(p, showHint)
    /\ UNCHANGED <<showHint, innerWidth, planetRef, position, clock, smoothedTarget,
                   smoothedPlanet, smoothedCamera, isActive, camera,
                   lastDir, lastFrame, firstUsed,
                   lastUsed, quietPlanets, quietPosition>>

\* handleClick, from a click on planet p's group (which must be mounted).
handleClick(p) ==
    /\ planetRef[p]
    /\ selected' = p
    /\ isFocusing' = TRUE
    /\ lastEvent' = p
    /\ Render(p, showHint)
    /\ UNCHANGED <<showHint, innerWidth, planetRef, position, clock, smoothedTarget,
                   smoothedPlanet, smoothedCamera, isActive, camera,
                   lastDir, lastFrame, firstUsed,
                   lastUsed, quietPlanets, quietPosition>>

\* A handleBack that clears the store's flag only.
handleBackKeepsSelection ==
    /\ ui.back
    /\ selected' = selected
    /\ isFocusing' = FALSE
    /\ lastEvent' = "back"
    /\ Render(selected, showHint)
    /\ UNCHANGED <<showHint, innerWidth, planetRef, position, clock, smoothedTarget,
                   smoothedPlanet, smoothedCamera, isActive, camera,
                   lastDir, lastFrame, firstUsed,
                   lastUsed, quietPlanets, quietPosition>>

\* handleBack, from a click on the Back button (rendered while selected).
handleBack ==
    /\ ui.back
    /\ selected' = NULL
    /\ isFocusing' = FALSE
    /\ lastEvent' = "back"
    /\ Render(NULL, showHint)
    /\ UNCHANGED <<showHint, innerWidth, planetRef, position, clock, smoothedTarget,
                   smoothedPlanet, smoothedCamera, isActive, camera,
                   lastDir, lastFrame, firstUsed,
                   lastUsed, quietPlanets, quietPosition>>

\* The 5-second timer hides the hint; SolarSystem renders again (in both runs).
HintTimeout ==
    /\ showHint
    /\ showHint' = FALSE
    /\ Render(selected, FALSE)
    /\ quietPlanets' = PlanetsTable(innerWidth)
    /\ UNCHANGED <<selected, isFocusing, innerWidth, planetRef, position, clock,
                   smoothedTarget, smoothedPlanet, smoothedCamera, isActive, camera,
                   lastDir, lastEvent,
                   lastFrame, firstUsed, lastUsed, quietPosition>>

\* The user resizes the window; nothing of SolarSystem listens to it.
Resize(w) ==
    /\ w # innerWidth
    /\ innerWidth' = w
    /\ UNCHANGED <<selected, isFocusing, showHint, planets, ui, planetRef, position,
                   clock, smoothedTarget, smoothedPlanet, smoothedCamera, isActive, camera,
                   lastDir,
                   lastEvent, lastFrame, firstUsed, lastUsed, quietPlanets,
                   quietPosition>>

\* React clears planetRefs[p].current when p's group leaves the scene, and sets
\* it when the group is committed again.
Detach(p) ==
    /\ planetRef[p]
    /\ planetRef' = [planetRef EXCEPT ![p] = FALSE]
    /\ UNCHANGED <<selected, isFocusing, showHint, innerWidth, planets, ui, position,
                   clock, smoothedTarget, smoothedPlanet, smoothedCamera, isActive, camera,
                   lastDir,
                   lastEvent, lastFrame, firstUsed, lastUsed, quietPlanets,
                   quietPosition>>

Attach(p) ==
    /\ ~planetRef[p]
    /\ planetRef' = [planetRef EXCEPT ![p] = TRUE]
    /\ UNCHANGED <<selected, isFocusing, showHint, innerWidth, planets, ui, position,
                   clock, smoothedTarget, smoothedPlanet, smoothedCamera, isActive, camera,
                   lastDir,
                   lastEvent, lastFrame, firstUsed, lastUsed, quietPlanets,
                   quietPosition>>


(***************************************************************************)
(* The frame.  Every useFrame callback runs once, in the order the         *)
(* components are mounted: the PlanetGroups, then the CameraController.    *)
(* The renderer supplies the elapsed time t and the frame delta; the model *)
(* draws them independently of each other, which covers every pair the     *)
(* renderer can supply on the tick grid.                                   *)
(***************************************************************************)

\* A getPlanetPosition that returns null while the ref is not set.
GetPlanetPositionNullOnMissingRef(sel, refs, pos, st) ==
    IF sel = NULL \/ ~refs[sel]
    THEN [target |-> NoVec, smoothedTarget |-> st, lerps |-> <<>>]
    ELSE LET localPos == ToFixedVec(pos[sel])
             next == Lerp(st, localPos, BlendTarget)
         IN  [target |-> next, smoothedTarget |-> next,
              lerps |-> <<[prev |-> st, desired |-> localPos, next |-> next,
                           alpha |-> BlendTarget]>>]

\* A getPlanetPosition that starts over from the origin while the ref is not set.
GetPlanetPositionResetOnMissingRef(sel, refs, pos, st) ==
    IF sel = NULL THEN [target |-> NoVec, smoothedTarget |-> st, lerps |-> <<>>]
    ELSE IF ~refs[sel]
    THEN [target |-> Origin, smoothedTarget |-> Origin, lerps |-> <<>>]
    ELSE LET localPos == ToFixedVec(pos[sel])
             next == Lerp(st, localPos, BlendTarget)
         IN  [target |-> next, smoothedTarget |-> next,
              lerps |-> <<[prev |-> st, desired |-> localPos, next |-> next,
                           alpha |-> BlendTarget]>>]

\* A getPlanetPosition that starts over at the planet's position.
GetPlanetPositionSnap(sel, refs, pos, st) ==
    IF sel = NULL THEN [target |-> NoVec, smoothedTarget |-> st, lerps |-> <<>>]
    ELSE IF ~refs[sel] THEN [target |-> st, smoothedTarget |-> st, lerps |-> <<>>]
    ELSE LET localPos == ToFixedVec(pos[sel])
         IN  [target |-> localPos, smoothedTarget |-> localPos,
              lerps |-> <<[prev |-> st, desired |-> localPos, next |-> localPos,
                           alpha |-> BlendTarget]>>]

\* getPlanetPosition: the value it returns (NoVec for null), what it leaves in
\* smoothedTarget, and the lerp it made.
GetPlanetPosition(sel, refs, pos, st) ==
    IF sel = NULL THEN [target |-> NoVec, smoothedTarget |-> st, lerps |-> <<>>]
    ELSE IF ~refs[sel] THEN [target |-> st, smoothedTarget |-> st, lerps |-> <<>>]
    ELSE LET localPos == ToFixedVec(pos[sel])
             next == Lerp(st, localPos, BlendTarget)
         IN  [target |-> next, smoothedTarget |-> next,
              lerps |-> <<[prev |-> st, desired |-> localPos, next |-> next,
                           alpha |-> BlendTarget]>>]

\* The condition of the controller's Focused branch: isFocusing && target.
FocusCondition(focusing, target) == focusing /\ target # NoVec

\* The blend factors of the Focused branch: 1 - Math.exp(-delta * k).
BlendPlanet(delta) == 1000 - ExpNeg(delta * 4)
BlendCamera(delta) == 1000 - ExpNeg(delta * 3)

\* The offset of the cinematic orbit at elapsed time t: the camera circles the
\* planet at 0.2 rad/s, at a radius of 10 + 1.2*sin(0.5*t) and a height of 3.
OrbitOffset(t) ==
    LET zoom == Sin2(5 * t)
        currentRadius == <<10 * 20 + 12 * zoom[1], 12 * zoom[2]>>
    IN  <<ToFixed(SurdMul(Sin2(2 * t), currentRadius), 2), 3 * 20,
          ToFixed(SurdMul(Cos2(2 * t), currentRadius), 2)>>

\* The Focused branch of the controller's callback.
FocusBranch(target, t, delta, sp, sc) ==
    LET sp1 == Lerp(sp, target, BlendPlanet(delta))
        off == OrbitOffset(t)
        desired == <<sp1[1] + off[1], sp1[2] + off[2], sp1[3] + off[3]>>
        sc1 == Lerp(sc, desired, BlendCamera(delta))
    IN  [mode |-> "Focused", smoothedPlanet |-> sp1, smoothedCamera |-> sc1,
         isActive |-> TRUE,
         lerps |-> <<[prev |-> sp, desired |-> target, next |-> sp1,
                      alpha |-> BlendPlanet(delta)],
                     [prev |-> sc, desired |-> desired, next |-> sc1,
                      alpha |-> BlendCamera(delta)]>>]

\* An else branch that resets the flag and leaves the vectors where they are.
FreeBranchHold(sp, sc) ==
    [mode |-> "Free", smoothedPlanet |-> sp, smoothedCamera |-> sc,
     isActive |-> FALSE, lerps |-> <<>>]

\* The else branch: back to the default system view.
FreeBranch(sp, sc) ==
    LET sc1 == Lerp(sc, DefaultPos, BlendFree)
        sp1 == Lerp(sp, Origin, BlendFree)
    IN  [mode |-> "Free", smoothedPlanet |-> sp1, smoothedCamera |-> sc1,
         isActive |-> FALSE,
         lerps |-> <<[prev |-> sc, desired |-> DefaultPos, next |-> sc1,
                      alpha |-> BlendFree],
                     [prev |-> sp, desired |-> Origin, next |-> sp1,
                      alpha |-> BlendFree]>>]

\* The CameraController's useFrame callback.
CameraFrame(focusing, target, t, delta, sp, sc) ==
    IF FocusCondition(focusing, target)
    THEN FocusBranch(target, t, delta, sp, sc)
    ELSE FreeBranch(sp, sc)

Frame(delta, t) ==
    /\ clock' = t
    /\ position' = [p \in Names |->
                      IF planetRef[p] THEN PlanetGroupFrame(planets[p], t)
                      ELSE position[p]]
    /\ lastUsed' = [p \in Names |-> IF planetRef[p] THEN planets[p] ELSE lastUsed[p]]
    /\ firstUsed' = [p \in Names |->
                       IF planetRef[p] /\ firstUsed[p] = NoRow THEN planets[p]
                       ELSE firstUsed[p]]
    /\ quietPosition' = [p \in Names |->
                           IF planetRef[p] THEN PlanetGroupFrame(quietPlanets[p], t)
                           ELSE quietPosition[p]]
    /\ \E g \in {GetPlanetPosition(selected, planetRef, position', smoothedTarget)} :
       \E c \in {CameraFrame(isFocusing, g.target, t, delta, smoothedPlanet,
                             smoothedCamera)} :
       \E a \in {IF c.mode = "Focused" THEN Activate(isActive, lastDir, camera)
                 ELSE [isActive |-> c.isActive, lastDir |-> lastDir,
                       captured |-> FALSE]} :
           /\ smoothedTarget' = g.smoothedTarget
           /\ smoothedPlanet' = c.smoothedPlanet
           /\ smoothedCamera' = c.smoothedCamera
           /\ isActive' = a.isActive
           /\ lastDir' = a.lastDir
           /\ camera' = [position |-> c.smoothedCamera, lookAt |-> c.smoothedPlanet]
           /\ lastFrame' = [mode |-> c.mode, selected |-> selected,
                            resolved |-> selected # NULL /\ planetRef[selected],
                            captured |-> a.captured,
                            lerps |-> g.lerps \o c.lerps]
    /\ UNCHANGED <<selected, isFocusing, showHint, innerWidth, planets, ui, planetRef,
                   lastEvent, quietPlanets>>

NoFrame ==
    [mode |-> "none", selected |-> NULL, resolved |-> FALSE, captured |-> FALSE,
     lerps |-> <<>>]

AppInit ==
    /\ selected = NULL
    /\ isFocusing = FALSE
    /\ showHint = TRUE
    /\ innerWidth \in Widths
    /\ planets = PlanetsTable(innerWidth)
    /\ ui = RenderUi(NULL, TRUE)
    /\ planetRef = [p \in Names |-> TRUE]
    /\ position = [p \in Names |-> SurdOrigin]
    /\ clock = 0
    /\ smoothedTarget = Origin
    /\ smoothedPlanet = Origin
    /\ smoothedCamera = DefaultPos
    /\ isActive = FALSE
    /\ lastDir = <<0, 0, -1>>
    /\ camera = [position |-> CameraPos(innerWidth), lookAt |-> Origin]
    /\ lastEvent = "none"
    /\ lastFrame = NoFrame
    /\ firstUsed = [p \in Names |-> NoRow]
    /\ lastUsed = [p \in Names |-> NoRow]
    /\ quietPlanets = planets
    /\ quietPosition = position

(***************************************************************************)
(* The intermediate application: the store holds the target as a position  *)
(* (CameraController.tsx), OverlayInfo looks the planet up by the target's  *)
(* x coordinate, and Planet.tsx moves each planet.                          *)
(***************************************************************************)
\* OverlayInfo's planets table, in its order.
overlayPlanets ==
    << [name |-> "Mercury", distance |-> 8,
        info |-> "Smallest planet, closest to the Sun"],
       [name |-> "Venus", distance |-> 12, info |-> "Hottest planet with thick clouds"],
       [name |-> "Earth", distance |-> 16, info |-> "Our home planet"],
       [name |-> "Mars", distance |-> 20, info |-> "The Red Planet"] >>
OverlayNames == {overlayPlanets[i].name : i \in 1..Len(overlayPlanets)}
OverlayRow(name) ==
    overlayPlanets[CHOOSE i \in 1..Len(overlayPlanets) : overlayPlanets[i].name = name]

\* Planet.tsx's useFrame with the default orbitSpeed of 0.2: the position it
\* sets on the planet's group at elapsed time t.
PlanetFrame(distance, t) == OrbitPosition(distance * 10, 2, t)

\* Math.abs(distance - x) < 1, for a surd x in units of 1/20.
WithinOne(distance, x) ==
    LET d == <<distance * 20 - x[1], -x[2]>>
    IN  /\ SurdSign(<<20 - d[1], -d[2]>>) = 1
        /\ SurdSign(<<20 + d[1], d[2]>>) = 1

\* OverlayInfo's effect: the info it sets for a target.
OverlayEffect(target) ==
    IF target = NoVec THEN ""
    ELSE LET found == {i \in 1..Len(overlayPlanets) :
                          WithinOne(overlayPlanets[i].distance, target[1])}
         IN  IF found = {} THEN ""
             ELSE overlayPlanets[CHOOSE i \in found : \A j \in found : i <= j].info

\* A render of this generation's CameraController: its body runs again, and
\* `let angle = 0` gives the callback it registers a fresh angle.
RenderCameraController == angle' = 0

\* The controller's useFrame callback, for the store's target and the angle of
\* its closure: with no target it advances the angle by rotationSpeed and
\* uses the new angle for the camera's orbit position.
OrbitCameraFrame(target, a) ==
    IF target # NoVec THEN [mode |-> "Focused", angle |-> a, used |-> <<>>]
    ELSE [mode |-> "Free", angle |-> a + 1, used |-> <<a + 1>>]

\* setTarget(pos) with planet p's position at the angle k*pi/6 of its orbit;
\* the store's subscribers render again: OverlayInfo's effect runs on the
\* change, and so does the CameraController's body.
setTarget(p, k) ==
    /\ targetPlanet' = OrbitPosition(OverlayRow(p).distance * 10, 1, k)
    /\ targetName' = p
    /\ info' = OverlayEffect(targetPlanet')
    /\ RenderCameraController
    /\ UNCHANGED <<meshPosition, elapsed, freeAngles>>

\* setTarget(null)
clearTarget ==
    /\ targetPlanet' = NoVec
    /\ targetName' = NULL
    /\ info' = OverlayEffect(targetPlanet')
    /\ RenderCameraController
    /\ UNCHANGED <<meshPosition, elapsed, freeAngles>>

\* A frame of the intermediate application: every Planet moves, then the
\* CameraController's callback runs.
PlanetsFrame(t) ==
    /\ elapsed' = t
    /\ meshPosition' = [p \in OverlayNames |-> PlanetFrame(OverlayRow(p).distance, t)]
    /\ LET c == OrbitCameraFrame(targetPlanet, angle)
       IN  /\ angle' = c.angle
           /\ freeAngles' = freeAngles \o c.used
    /\ UNCHANGED <<targetPlanet, targetName, info>>

OverlayInit ==
    /\ targetPlanet = NoVec
    /\ info = ""
    /\ targetName = NULL
    /\ meshPosition = [p \in OverlayNames |-> SurdOrigin]
    /\ elapsed = 0
    /\ angle = 0
    /\ freeAngles = <<>>

(***************************************************************************)
(* The orbit updaters as functions of their inputs: PlanetGroup's callback *)
(* for a table row, and Planet.tsx's callback for a distance and the       *)
(* default orbitSpeed.                                                     *)
(***************************************************************************)
\* The distances of the planets tables (tenths) and the speeds on the grid.
UpdaterDistances == {80, 120, 160, 200, 100, 140, 180, 230, 320, 420, 500, 580}
UpdaterSpeeds == {1, 2, 5, 6, 8, 10}
UpdaterTimes == 0..11

NoArgs == [radius |-> 0, speed |-> 0, t |-> 0]

ApplyPlanetGroupFrame(row, t) ==
    /\ orbitArgs' = [radius |-> row.distance, speed |-> row.orbitSpeed, t |-> t]
    /\ orbitAngle' = OrbitAngle(row.orbitSpeed, t)
    /\ orbitResult' = PlanetGroupFrame(row, t)

ApplyPlanetFrame(distance, t) ==
    /\ orbitArgs' = [radius |-> distance * 10, speed |-> 2, t |-> t]
    /\ orbitAngle' = OrbitAngle(2, t)
    /\ orbitResult' = PlanetFrame(distance, t)

UpdaterInit ==
    /\ orbitArgs = NoArgs
    /\ orbitAngle = 0
    /\ orbitResult = SurdOrigin

(***************************************************************************)
(* Specifications.                                                         *)
(***************************************************************************)
Init == AppInit /\ OverlayInit /\ UpdaterInit
\* The same on a desktop window, for the runs in which nothing resizes it.
InitDesktop == Init /\ innerWidth = 1200

Click == \E p \in Names : handleClick(p) /\ UNCHANGED <<overlayVars, updaterVars>>
Back == handleBack /\ UNCHANGED <<overlayVars, updaterVars>>
Timer == HintTimeout /\ UNCHANGED <<overlayVars, updaterVars>>
WindowResize == \E w \in Widths : Resize(w) /\ UNCHANGED <<overlayVars, updaterVars>>
RefDetach == \E p \in Names : Detach(p) /\ UNCHANGED <<overlayVars, updaterVars>>
RefAttach == \E p \in Names : Attach(p) /\ UNCHANGED <<overlayVars, updaterVars>>
\* A frame at the next time sample.
Tick ==
    /\ clock < MaxClock
    /\ \E delta \in DeltaSamples : Frame(delta, clock + 1)
    /\ UNCHANGED <<overlayVars, updaterVars>>

\* The application with its window: clicks, the hint timer, resizes and frames.
Next == Click \/ Back \/ Timer \/ WindowResize \/ Tick

Spec == Init /\ [][Next]_vars

\* The application with planet groups that leave and re-enter the scene.
RefsNext == Click \/ Back \/ RefDetach \/ RefAttach \/ Tick

SpecRefs == InitDesktop /\ [][RefsNext]_vars

\* The unbounded run of the camera: frames never stop (the renderer's loop calls
\* useFrame for as long as the page is shown).  The user clicks planets during
\* the first MaxClock ticks only; after them the clock runs on (every quantity
\* a frame reads from it has a period of 12 ticks, so it is kept modulo 12
\* past MaxClock), and only the frames of an unselected scene are followed.
NextSample(c) == IF c < MaxClock THEN c + 1 ELSE MaxClock + ((c - MaxClock + 1) % 12)

LiveClick ==
    /\ clock < MaxClock
    /\ \E p \in Names : handleClick(p)
    /\ UNCHANGED <<overlayVars, updaterVars>>
LiveBack == handleBack /\ UNCHANGED <<overlayVars, updaterVars>>
LiveTick ==
    /\ clock < MaxClock \/ selected = NULL
    /\ \E delta \in DeltaSamples : Frame(delta, NextSample(clock))
    /\ UNCHANGED <<overlayVars, updaterVars>>

LiveNext == LiveClick \/ LiveBack \/ LiveTick

SpecLive == InitDesktop /\ [][LiveNext]_vars /\ WF_vars(LiveTick)

\* The intermediate application.
OverlaySetTarget ==
    \E p \in OverlayNames, k \in 0..11 :
        setTarget(p, k) /\ UNCHANGED <<appVars, updaterVars>>
OverlayClearTarget == clearTarget /\ UNCHANGED <<appVars, updaterVars>>
OverlayTick ==
    /\ elapsed < MaxClock
    /\ PlanetsFrame(elapsed + 1)
    /\ UNCHANGED <<appVars, updaterVars>>

OverlayNext == OverlaySetTarget \/ OverlayClearTarget \/ OverlayTick

SpecOverlay == InitDesktop /\ [][OverlayNext]_vars

\* The orbit updaters on their own, for every input of the tables.
UpdaterPlanetGroup ==
    \E d \in UpdaterDistances, s \in UpdaterSpeeds, t \in UpdaterTimes :
        /\ ApplyPlanetGroupFrame([distance |-> d, orbitSpeed |-> s], t)
        /\ UNCHANGED <<appVars, overlayVars>>
UpdaterPlanet ==
    \E i \in 1..Len(overlayPlanets), t \in UpdaterTimes :
        /\ ApplyPlanetFrame(overlayPlanets[i].distance, t)
        /\ UNCHANGED <<appVars, overlayVars>>

UpdaterNext == UpdaterPlanetGroup \/ UpdaterPlanet

SpecUpdater == InitDesktop /\ [][UpdaterNext]_vars

(***************************************************************************)
(* The claims.                                                             *)
(***************************************************************************)

\* C1.  After any sequence of planet clicks and Back clicks (and frames,
\* timer renders and resizes between them) the selection is the name of the
\* most recently clicked planet if no Back click followed it, and null
\* otherwise.
C1_SelectionFollowsClicks ==
    selected = (IF lastEvent \in Names THEN lastEvent ELSE NULL)

\* A Back click that followed a selection and frames.
C1_Witness == lastEvent = "back" /\ selected = NULL /\ lastFrame.mode = "Focused"

\* C2.  Every frame runs the controller's Focused branch if and only if the
\* selection is non-null at that frame, whether or not the planet's ref is set.
C2_FocusedIffSelected ==
    lastFrame.mode # "none" =>
        (lastFrame.mode = "Focused" <=> lastFrame.selected # NULL)

\* A Free frame after a Back click, the camera still displaced by the Focused
\* frames before it.
C2_Witness ==
    /\ lastEvent = "back"
    /\ lastFrame.mode = "Free"
    /\ smoothedCamera # DefaultPos

\* The smoothing tolerance: half a world unit, under which a blend of 0.05
\* rounds to no movement.
SmoothingTolerance == 20 \div 2

NearDefault ==
    \A i \in 1..3 :
        /\ Abs(smoothedCamera[i] - DefaultPos[i]) <= SmoothingTolerance
        /\ Abs(smoothedPlanet[i] - Origin[i]) <= SmoothingTolerance

Between(lo, x, hi) == (lo <= x /\ x <= hi) \/ (hi <= x /\ x <= lo)

\* C4.  In every lerp of every frame the blend factor lies in [0,1] and each
\* coordinate of the new value lies between the previous value and the
\* desired value, both included.
C4_NoOvershoot ==
    \A i \in 1..Len(lastFrame.lerps) :
        LET l == lastFrame.lerps[i]
        IN  /\ 0 <= l.alpha /\ l.alpha <= 1000
            /\ \A k \in 1..3 : Between(l.prev[k], l.next[k], l.desired[k])

\* A Focused frame on a resolved planet, in which some coordinate of the
\* smoothed camera position moved strictly between its old and desired value.
C4_Witness ==
    /\ lastFrame.mode = "Focused"
    /\ lastFrame.resolved
    /\ Len(lastFrame.lerps) = 3
    /\ \E k \in 1..3 :
          LET l == lastFrame.lerps[3]
          IN  l.prev[k] # l.next[k] /\ l.next[k] # l.desired[k]

\* A frame (every frame moves the clock) that finds a selection whose ref is
\* not set.
UnresolvedFrame == clock' # clock /\ selected # NULL /\ ~planetRef[selected]

\* C5 as stated.  In a frame whose selection cannot be resolved the smoothed
\* target and the smoothed camera position of the controller are left
\* unchanged.
C5_HoldsSmoothedValues ==
    [][UnresolvedFrame =>
          smoothedPlanet' = smoothedPlanet /\ smoothedCamera' = smoothedCamera]_vars

\* C5 as amended.  In a frame whose selection cannot be resolved,
\* getPlanetPosition leaves smoothedTarget unchanged and returns it, and the
\* controller runs its Focused branch on it: smoothedPlanet and smoothedCamera
\* are eased toward the held target and its orbit offset.
C5_HoldsSmoothedTarget ==
    [][UnresolvedFrame =>
          /\ smoothedTarget' = smoothedTarget
          /\ lastFrame'.mode = "Focused"
          /\ Len(lastFrame'.lerps) = 2
          /\ lastFrame'.lerps[1].prev = smoothedPlanet
          /\ lastFrame'.lerps[1].desired = smoothedTarget
          /\ lastFrame'.lerps[1].next = smoothedPlanet'
          /\ lastFrame'.lerps[2].next = smoothedCamera']_vars

\* A frame that ran with a selection whose ref was not set, after the target
\* had been smoothed away from the origin.
C5_Witness ==
    /\ lastFrame.selected # NULL
    /\ ~lastFrame.resolved
    /\ smoothedTarget # Origin

\* C6.  The panel is shown exactly when a planet is selected, and then it
\* shows the selected planet's name and info text.
C6_PanelMatchesSelection ==
    /\ ui.panel # NoPanel <=> selected # NULL
    /\ selected # NULL =>
          ui.panel = [name |-> selected, text |-> planetInfo(selected)]

\* Mars is selected and shown after frames have run.
C6_Witness ==
    /\ selected = "Mars"
    /\ ui.panel.text = "The Red Planet, target for exploration."
    /\ clock > 0

\* C7.  OverlayInfo shows the info text of the planet whose orbit position
\* is the camera target, and nothing when the target is null.
C7_OverlayShowsOwnInfo ==
    /\ targetName # NULL => info = OverlayRow(targetName).info
    /\ targetPlanet = NoVec => info = ""

\* C8.  A run and the run without clicks that sees the same clock samples,
\* widths and timer place every planet at the same position in every frame.
C8_PositionsIndependentOfSelection == position = quietPosition

\* C9.  The radius and the speed every position update uses are the ones
\* the planet's first update used.
C9_RadiusAndSpeedConstant ==
    \A p \in Names : firstUsed[p] # NoRow => lastUsed[p] = firstUsed[p]

\* C10.  Every position the orbit updater wrote has y = 0 and lies at
\* exactly the radius it used from the origin: x^2 + z^2 = radius^2.
C10_OnOrbitCircle ==
    \A p \in Names :
        lastUsed[p] # NoRow =>
            /\ position[p][2] = SurdZero
            /\ SurdAdd(SurdMul(position[p][1], position[p][1]),
                       SurdMul(position[p][3], position[p][3]))
                   = <<(2 * lastUsed[p].distance) * (2 * lastUsed[p].distance), 0>>

\* A planet placed off the axes, where both coordinates matter (cos and sin
\* of an odd multiple of pi/6).
C10_Witness ==
    \E p \in Names :
        /\ lastUsed[p] # NoRow
        /\ position[p][1] # SurdZero
        /\ position[p][3] # SurdZero

\* The reference values of 2*cos and 2*sin at the angle k*pi/6.
RefCos2(k) ==
    CASE k % 12 = 0 -> <<2, 0>>   [] k % 12 = 1 -> <<0, 1>>   [] k % 12 = 2 -> <<1, 0>>
      [] k % 12 = 3 -> <<0, 0>>   [] k % 12 = 4 -> <<-1, 0>>  [] k % 12 = 5 -> <<0, -1>>
      [] k % 12 = 6 -> <<-2, 0>>  [] k % 12 = 7 -> <<0, -1>>  [] k % 12 = 8 -> <<-1, 0>>
      [] k % 12 = 9 -> <<0, 0>>   [] k % 12 = 10 -> <<1, 0>>  [] k % 12 = 11 -> <<0, 1>>
RefSin2(k) ==
    CASE k % 12 = 0 -> <<0, 0>>   [] k % 12 = 1 -> <<1, 0>>   [] k % 12 = 2 -> <<0, 1>>
      [] k % 12 = 3 -> <<2, 0>>   [] k % 12 = 4 -> <<0, 1>>   [] k % 12 = 5 -> <<1, 0>>
      [] k % 12 = 6 -> <<0, 0>>   [] k % 12 = 7 -> <<-1, 0>>  [] k % 12 = 8 -> <<0, -1>>
      [] k % 12 = 9 -> <<-2, 0>>  [] k % 12 = 10 -> <<0, -1>> [] k % 12 = 11 -> <<-1, 0>>

\* C11.  For every input the orbit updater's result is the reference
\* (radius*cos(t*speed), 0, radius*sin(t*speed)); a radius of 16 and a speed of
\* 0.6 give (16,0,0) at t = 0 and (-16,0,0) at t = pi/0.6 (one tick).
C11_UpdaterEqualsReference ==
    LET a == orbitArgs
    IN  /\ orbitResult = <<SurdScale(a.radius, RefCos2(a.t * a.speed)), SurdZero,
                           SurdScale(a.radius, RefSin2(a.t * a.speed))>>
        /\ a = [radius |-> 160, speed |-> 6, t |-> 0] =>
               ToFixedVec(orbitResult) = <<16 * 20, 0, 0>>
        /\ a = [radius |-> 160, speed |-> 6, t |-> 1] =>
               ToFixedVec(orbitResult) = <<-(16 * 20), 0, 0>>

\* The updater was applied to a radius of 16 and a speed of 0.6 at t = pi/0.6.
C11_Witness ==
    /\ orbitArgs = [radius |-> 160, speed |-> 6, t |-> 1]
    /\ orbitResult # SurdOrigin

\* C12.  With the same angular speed, a later time sample gives a strictly
\* greater angle (not wrapped) than an earlier one, for every speed of the
\* table.
C12_AngleIncreases ==
    [][(/\ orbitArgs # NoArgs
        /\ orbitArgs'.speed = orbitArgs.speed
        /\ orbitArgs.t < orbitArgs'.t) => orbitAngle < orbitAngle']_vars

\* Earth's speed of 0.6 at the third tick: the angle 3*pi is past a full turn.
C12_Witness == orbitArgs.speed = 6 /\ orbitArgs.t = 3 /\ orbitAngle = 18

\* C13.  The orbit angle a Free frame uses is strictly greater than the
\* angle every earlier Free frame used, also across selections, Back clicks
\* and renders of the controller.
C13_FreeAngleIncreases ==
    \A i, j \in 1..Len(freeAngles) : i < j => freeAngles[i] < freeAngles[j]

\* A frame: every frame moves the clock, and nothing else does.
FrameStep == clock' # clock

\* C14.  After every frame the isActive flag is true iff the frame ran the
\* Focused branch; lastDir is written in exactly the Focused frames whose
\* preceding frame was not Focused (or that are the first frame), and by
\* nothing else; and the smoothed camera position and look-at target a frame
\* leaves are those computed from the focusing flag, the target, the time,
\* the delta and their previous values, with no use of lastDir.
C14_CapturedOncePerTransition ==
    [][/\ FrameStep =>
             /\ isActive' <=> lastFrame'.mode = "Focused"
             /\ lastFrame'.captured <=>
                    (lastFrame'.mode = "Focused" /\ lastFrame.mode # "Focused")
             /\ lastFrame'.captured => lastDir' = GetWorldDirection(camera)
             /\ ~lastFrame'.captured => lastDir' = lastDir
             /\ \E delta \in DeltaSamples :
                    LET g == GetPlanetPosition(selected, planetRef, position',
                                               smoothedTarget)
                        c == CameraFrame(isFocusing, g.target, clock', delta,
                                         smoothedPlanet, smoothedCamera)
                    IN  /\ smoothedPlanet' = c.smoothedPlanet
                        /\ smoothedCamera' = c.smoothedCamera
                        /\ camera' = [position |-> c.smoothedCamera,
                                      lookAt |-> c.smoothedPlanet]
       /\ ~FrameStep => lastDir' = lastDir /\ isActive' = isActive]_vars

\* A Free-to-Focused transition: the second frame, which followed a Free
\* frame, ran the Focused branch and captured the direction of the camera the
\* Free frame had left.
C14_Witness ==
    /\ clock = 2
    /\ lastFrame.captured
    /\ isActive
    /\ lastDir = GetWorldDirection([position |-> DefaultPos, lookAt |-> Origin])

\* C15.  In every state between handlers, so at every frame and render, the
\* store's isFocusing flag is true if and only if a planet is selected.
C15_FlagMatchesSelection == isFocusing <=> selected # NULL

\* A planet was clicked after a frame of the free view: the flag and the
\* selection are both set, and the panel of the new render shows it.
C15_Witness ==
    /\ isFocusing
    /\ selected \in Names
    /\ lastFrame.mode = "Free"
    /\ ui.back

\* A click on another planet while one is selected.
RetargetClick == selected # NULL /\ selected' # NULL /\ selected' # selected

\* A frame that follows a Focused frame and finds another planet selected than
\* that frame did.
RetargetFrame ==
    /\ FrameStep
    /\ lastFrame.mode = "Focused"
    /\ selected # NULL
    /\ selected # lastFrame.selected

\* C16.  A click on another planet while one is focused keeps the store's
\* flag set and writes nothing of the camera's state; the frame that follows
\* runs the Focused branch again (no Free frame in between), isActive stays
\* true and lastDir is not captured again, and the smoothed target moves from
\* its current value a fifth of the way toward the new planet (or is held
\* while that planet's ref is not set).
C16_RetargetKeepsFocus ==
    [][/\ RetargetClick =>
             /\ isFocusing /\ isFocusing'
             /\ UNCHANGED <<isActive, lastDir, smoothedTarget, smoothedPlanet,
                            smoothedCamera, lastFrame>>
       /\ RetargetFrame =>
             /\ lastFrame'.mode = "Focused"
             /\ isActive /\ isActive'
             /\ ~lastFrame'.captured
             /\ lastDir' = lastDir
             /\ smoothedTarget' =
                    IF planetRef[selected]
                    THEN Lerp(smoothedTarget, ToFixedVec(position'[selected]),
                              BlendTarget)
                    ELSE smoothedTarget]_vars

\* Earth was focused in the first frame and Mars in the second: the smoothed
\* target went a fifth of the way to Earth, and from there a fifth of the way
\* to Mars, with no second capture of the direction.
C16_Witness ==
    /\ clock = 2
    /\ selected = "Mars"
    /\ isActive
    /\ ~lastFrame.captured
    /\ smoothedTarget # Origin
    /\ smoothedTarget =
          Lerp(Lerp(Origin, ToFixedVec(PlanetGroupFrame(planets["Earth"], 1)),
                    BlendTarget),
               ToFixedVec(PlanetGroupFrame(planets["Mars"], 2)), BlendTarget)

=============================================================================
